---- MODULE Spec2Model ----
(***************************************************************************)
(* Model of the WebView bridge of zynoflixott (src/app/index.tsx):         *)
(* the PickerLock mutex, and the host dispatcher that drives the native    *)
(* file pickers and the fullscreen orientation controller.                 *)
(*                                                                         *)
(* JavaScript runs one macrotask at a time (an inbound message, a timer    *)
(* callback, the completion of a native call) and drains the microtask     *)
(* queue (promise continuations) before the next macrotask starts.         *)
(***************************************************************************)
EXTENDS Integers, Sequences, FiniteSets, TLC

(***************************************************************************)
(* Bounds                                                                  *)
(***************************************************************************)
\* acquire() calls made by the clients of a bare PickerLock
MaxCalls == 4
\* distinct clients of a bare PickerLock
NumCallers == 2

\* inbound bridge messages handled by the host (fewer than MaxCalls)
MaxMessages == 2
\* assets returned by one picker invocation
MaxAssets == 2
\* dot-separated parts of a file name
MaxParts == 2
\* readings of Date.now()
MaxClock == 2
\* clicks on the embedded page
MaxClicks == 2
\* fullscreen, video-element and player events of the embedded page
MaxEvents == 4

CallIds == 1..MaxCalls
Callers == 1..NumCallers
\* handleFileInputRequest invocations; session s makes acquire() call s
Sessions == 1..MaxMessages

VARIABLES
    locked,        \* PickerLock.locked
    queue,         \* PickerLock.queue: the onAcquired callbacks, by call id
    timers,        \* armed setTimeout handles, <<kind, id>>
    promise,       \* promise[c]: state of the promise returned by acquire() call c
    resolveCalls,  \* resolveCalls[c]: how often call c's promise was resolved
    waited,        \* calls that took the locked branch of acquire()
    releases,      \* releases[c]: how often the maker of call c has called release()
    caller,        \* caller[c]: the client that made call c (0: not made)
    platformOS,    \* Platform.OS of the build
    received,      \* number of inbound bridge messages handled so far
    lastMsg,       \* what the most recent inbound message was
    fsEvents,      \* number of handleFullscreenChange invocations so far
    microtasks,    \* sessions whose `await pickerLock.acquire()` is ready to continue
    pc,            \* pc[s]: where session s (handleFileInputRequest/handleFileSelection) stands
    req,           \* req[s]: the arguments accept, multiple, targetId of handleFileSelection
    picker,        \* picker[s]: the native picker session s has open
    reads,         \* reads[s]: the entries of Promise.all(result.assets.map(...))
    assets,    \* assets[s]: what reading each asset result.assets[i] came to
    log,           \* log[s]: what session s has done, in order
    lastActiveInputId,
    scripts,       \* the scripts injected into the WebView, in order
    notifications, \* the alerts and toasts of the form handlers, in order
    isVideoFullscreen,
    statusBarHidden,
    fullscreenTimeoutRef,  \* fullscreenTimeoutRef.current: a timer id, 0 for null
    orientationLock,       \* the orientation lock the device applies
    lastOrientation,       \* what getOrientationAsync told the latest safety callback
    nativeCalls,           \* ScreenOrientation calls in flight, in the order issued
    mounted,               \* the screen component is mounted
    calc,          \* one evaluation of getMimeType or of the asset normalization
    page,          \* the elements of the embedded page, in document order
    web            \* what the scripts injected into the page have done

lockVars == <<locked, queue, timers, promise, resolveCalls, waited>>
sessionVars == <<microtasks, pc, req, picker, reads, assets, log, lastActiveInputId, scripts>>
msgVars == <<received, lastMsg, notifications>>
fsVars == <<isVideoFullscreen, statusBarHidden, fullscreenTimeoutRef, orientationLock, lastOrientation,
            nativeCalls, mounted>>
appVars == <<platformOS, received, lastMsg, notifications, fsEvents, microtasks, pc, req, picker, reads,
             assets, log, lastActiveInputId, scripts,
             isVideoFullscreen, statusBarHidden, fullscreenTimeoutRef, orientationLock, lastOrientation,
             nativeCalls, mounted>>
pureVars == <<calc, page, web>>
hostVars == <<lockVars, releases, caller, appVars>>
vars == <<locked, queue, timers, promise, resolveCalls, waited, releases, caller,
          platformOS, received, lastMsg, notifications, fsEvents, microtasks, pc, req, picker, reads,
          assets, log, lastActiveInputId, scripts,
          isVideoFullscreen, statusBarHidden, fullscreenTimeoutRef, orientationLock, lastOrientation,
          nativeCalls, mounted, calc, page, web>>

(***************************************************************************)
(* PickerLock                                                              *)
(***************************************************************************)
\* setTimeout(..., 5000) of acquire(): arms the wait timer of call c
ArmWaitTimer_Never(ts, c) == ts

ArmWaitTimer(ts, c) == ts \cup {<<"wait", c>>}

\* clearTimeout(timeoutId)
ClearTimer(ts, t) == ts \ {t}

\* this.queue.indexOf(onAcquired): 1-based position of c, 0 when absent
IndexOf(q, c) ==
    IF \E i \in 1..Len(q) : q[i] = c
    THEN CHOOSE i \in 1..Len(q) : q[i] = c /\ \A j \in 1..(i - 1) : q[j] # c
    ELSE 0

\* index = indexOf(onAcquired); if (index !== -1) queue.splice(index, 1)
RemoveFromQueue_Keep(q, c) == q

RemoveFromQueue(q, c) ==
    LET i == IndexOf(q, c)
    IN  IF i = 0 THEN q ELSE SubSeq(q, 1, i - 1) \o SubSeq(q, i + 1, Len(q))

\* this.queue.shift(): <<removed element, remaining queue>>
Shift_Last(q) == <<q[Len(q)], SubSeq(q, 1, Len(q) - 1)>>

Shift(q) == <<Head(q), Tail(q)>>

\* resolve(v) of a promise: the first call settles it, later calls are no-ops
Settle(p, c, v) == [p EXCEPT ![c] = IF p[c] = "pending" THEN v ELSE p[c]]

\* the value of this.locked after the non-waiting branch of acquire()
LockedAfterAcquire_Unset == FALSE

LockedAfterAcquire == TRUE

\* PickerLock.acquire(), call c
acquire(c) ==
    IF locked
    THEN /\ queue' = Append(queue, c)
         /\ timers' = ArmWaitTimer(timers, c)
         /\ promise' = [promise EXCEPT ![c] = "pending"]
         /\ waited' = waited \cup {c}
         /\ UNCHANGED <<locked, resolveCalls>>
    ELSE /\ locked' = LockedAfterAcquire
         /\ promise' = [promise EXCEPT ![c] = "true"]
         /\ resolveCalls' = [resolveCalls EXCEPT ![c] = @ + 1]
         /\ UNCHANGED <<queue, timers, waited>>

\* PickerLock.release(): locked = false; next = queue.shift(); if (next) next()
\* next() is onAcquired of the shifted call: clearTimeout, resolve(true)
release ==
    /\ locked' = FALSE
    /\ IF queue # <<>>
       THEN LET next == Shift(queue)[1]
            IN  /\ queue' = Shift(queue)[2]
                /\ timers' = ClearTimer(timers, <<"wait", next>>)
                /\ promise' = Settle(promise, next, "true")
                /\ resolveCalls' = [resolveCalls EXCEPT ![next] = @ + 1]
       ELSE UNCHANGED <<queue, timers, promise, resolveCalls>>
    /\ UNCHANGED waited

\* the setTimeout callback of acquire() call c
waitTimeout(c) ==
    /\ timers' = ClearTimer(timers, <<"wait", c>>)
    /\ queue' = RemoveFromQueue(queue, c)
    /\ promise' = Settle(promise, c, "false")
    /\ resolveCalls' = [resolveCalls EXCEPT ![c] = @ + 1]
    /\ UNCHANGED <<locked, waited>>

\* PickerLock.isLocked()
isLocked_Never == FALSE

isLocked == locked

\* the calls that hold the gate: acquire() resolved true, release() not yet called
Holders == {c \in CallIds : promise[c] = "true" /\ releases[c] = 0}

(***************************************************************************)
(* A bare PickerLock used by arbitrary clients that keep the discipline    *)
(* of the class: release() is called by a holder only.                     *)
(***************************************************************************)
\* JSON values of the fields of a fileInputClick payload; a string is the
\* sequence of the tokens it contains
Undef == [k |-> "undef", toks |-> <<>>]
Str(t) == [k |-> "str", toks |-> t]
NotAString == [k |-> "num", toks |-> <<>>]

NoId == "null"
NoReq == [accept |-> Undef, multiple |-> FALSE, targetId |-> NoId]
NoPicker == [kind |-> "none", multiple |-> FALSE]

\* an inbound message as handleMessage sees it: whether its text is JSON, its
\* type, whether it carries a data object, and the boolean of that object
\* (isFullscreen, isSignup, errors.length > 0)
MsgInfo(json, type, hasData, flag) == [json |-> json, type |-> type, hasData |-> hasData, flag |-> flag]
NoMsg == MsgInfo(FALSE, "none", FALSE, FALSE)

\* new PickerLock()
GateInit ==
    /\ locked = FALSE
    /\ queue = <<>>
    /\ timers = {}
    /\ promise = [c \in CallIds |-> "none"]
    /\ resolveCalls = [c \in CallIds |-> 0]
    /\ waited = {}
    /\ releases = [c \in CallIds |-> 0]
    /\ caller = [c \in CallIds |-> 0]

\* WebViewScreen(): the refs and state hooks at mount
ScreenInit ==
    /\ received = 0
    /\ lastMsg = NoMsg
    /\ notifications = <<>>
    /\ fsEvents = 0
    /\ microtasks = <<>>
    /\ pc = [s \in Sessions |-> "new"]
    /\ req = [s \in Sessions |-> NoReq]
    /\ picker = [s \in Sessions |-> NoPicker]
    /\ reads = [s \in Sessions |-> <<>>]
    /\ assets = [s \in Sessions |-> <<>>]
    /\ log = [s \in Sessions |-> <<>>]
    /\ lastActiveInputId = NoId
    /\ scripts = <<>>
    /\ isVideoFullscreen = FALSE
    /\ statusBarHidden = FALSE
    /\ fullscreenTimeoutRef = 0
    /\ orientationLock = "DEFAULT"
    /\ lastOrientation = "none"
    /\ nativeCalls = <<>>
    /\ mounted = TRUE

\* nothing is being evaluated and no page is loaded
NoCalc == [fn |-> "none", asset |-> [fileName |-> Undef, name |-> Undef, mimeType |-> Undef],
           now |-> 0, done |-> FALSE, name |-> Undef, type |-> Undef]
NoWeb == [script |-> "none",
          isCalled |-> FALSE, pending |-> 0, posted |-> <<>>, dialogs |-> 0, clicks |-> <<>>,
          ran |-> FALSE, targetId |-> "", input |-> <<>>, target |-> 0, files |-> <<>>,
          events |-> <<>>, marked |-> FALSE, submitTimer |-> FALSE, submits |-> 0,
          isInFullscreen |-> FALSE, fullscreenElement |-> FALSE, playerClass |-> FALSE,
          domEvents |-> 0]
PureIdle == calc = NoCalc /\ page = <<>> /\ web = NoWeb

LockInit ==
    /\ GateInit
    /\ platformOS = "android"
    /\ ScreenInit
    /\ PureIdle

\* the next unused call id
NextCall == CHOOSE c \in CallIds : promise[c] = "none" /\ \A d \in 1..(c - 1) : promise[d] # "none"

LockAcquire(who) ==
    /\ \E c \in CallIds : promise[c] = "none"
    /\ acquire(NextCall)
    /\ caller' = [caller EXCEPT ![NextCall] = who]
    /\ UNCHANGED releases
    /\ UNCHANGED appVars
    /\ UNCHANGED pureVars

LockRelease(c) ==
    /\ c \in Holders
    /\ release
    /\ releases' = [releases EXCEPT ![c] = @ + 1]
    /\ UNCHANGED caller
    /\ UNCHANGED appVars
    /\ UNCHANGED pureVars

LockTimeout(c) ==
    /\ <<"wait", c>> \in timers
    /\ waitTimeout(c)
    /\ UNCHANGED <<releases, caller>>
    /\ UNCHANGED appVars
    /\ UNCHANGED pureVars

LockNext ==
    \/ \E who \in Callers : LockAcquire(who)
    \/ \E c \in CallIds : LockRelease(c)
    \/ \E c \in CallIds : LockTimeout(c)

LockSpec == LockInit /\ [][LockNext]_vars

\* timers fire: a wait timer that stays armed eventually runs its callback
LockLiveSpec == LockSpec /\ \A c \in CallIds : WF_vars(LockTimeout(c))

(***************************************************************************)
(* The host dispatcher: file selection                                     *)
(***************************************************************************)
TargetIds == {"f1", "f2"}

\* JavaScript truthiness of a payload value
Truthy(v) == v.k \in {"num", "object"} \/ (v.k = "str" /\ v.toks # <<>>)

\* the values data.accept and data.type can carry
AcceptValues ==
    {Undef, Str(<<"image">>), Str(<<"video">>), Str(<<"video", "image">>), Str(<<"pdf">>),
     NotAString}
TypeValues == {Undef, Str(<<"video">>)}

\* message.data of a fileInputClick message; k = "none": no data object.
\* data.type is read only when data.accept is falsy
ClickData ==
    {d \in [k : {"data"}, accept : AcceptValues, type : TypeValues,
            multiple : BOOLEAN, id : TargetIds] : Truthy(d.accept) => d.type = Undef}
    \cup [k : {"none"}, accept : {Undef}, type : {Undef}, multiple : {FALSE}, id : {"f1"}]

\* accept || type
OrElse(a, b) == IF Truthy(a) THEN a ELSE b

\* accept?.includes(word) on a string value
Includes(v, word) == \E i \in 1..Len(v.toks) : v.toks[i] = word

\* the picker handleFileSelection launches for an accept hint; "throw" when
\* accept has no includes method (TypeError inside the try block)
PickerFor_VideoFirst(accept) ==
    IF accept.k = "num" THEN "throw"
    ELSE IF Includes(accept, "video") THEN "video"
    ELSE IF Includes(accept, "image") THEN "image"
    ELSE "document"

PickerFor(accept) ==
    IF accept.k = "num" THEN "throw"
    ELSE IF Includes(accept, "image") THEN "image"
    ELSE IF Includes(accept, "video") THEN "video"
    ELSE "document"

\* the number of inbound messages handled so far
msgs == received

\* the session the next fileInputClick message starts
NextSession == CHOOSE s \in Sessions : pc[s] = "new" /\ \A r \in 1..(s - 1) : pc[r] # "new"

Logged(s, events) == [log EXCEPT ![s] = @ \o events]

\* the continuation a settled acquire() promise schedules, appended to mt
Wake(mt) == IF queue # <<>> THEN Append(mt, Shift(queue)[1]) ELSE mt

\* pickerLock.release() called by session s, the microtask queue being mt
sessionRelease_Skip(s, mt) ==
    /\ UNCHANGED <<lockVars, releases>>
    /\ microtasks' = mt

sessionRelease(s, mt) ==
    /\ release
    /\ releases' = [releases EXCEPT ![s] = @ + 1]
    /\ microtasks' = Wake(mt)

\* handleFileSelection(accept, multiple, targetId) up to `await pickerLock.acquire()`
handleFileSelection(s, accept, multiple, targetId) ==
    IF isLocked
    THEN /\ pc' = [pc EXCEPT ![s] = "done"]
         /\ UNCHANGED <<lockVars, releases, caller, microtasks, req, log>>
    ELSE /\ acquire(s)
         /\ caller' = [caller EXCEPT ![s] = s]
         /\ pc' = [pc EXCEPT ![s] = "awaitAcquire"]
         /\ req' = [req EXCEPT ![s] = [accept |-> accept, multiple |-> multiple, targetId |-> targetId]]
         /\ log' = Logged(s, <<"acquire">>)
         /\ microtasks' = IF promise'[s] = "pending" THEN microtasks ELSE Append(microtasks, s)
         /\ UNCHANGED releases

\* the isLocked() test that opens handleFileInputRequest
GateBusy_Never == FALSE

GateBusy == isLocked

\* handleFileInputRequest(JSON.stringify(message.data))
handleFileInputRequest(s, data) ==
    IF GateBusy
    THEN \* 'Another file selection is in progress'; the request is ignored
         /\ pc' = [pc EXCEPT ![s] = "done"]
         /\ log' = Logged(s, IF platformOS = "android" THEN <<"notice">> ELSE <<>>)
         /\ UNCHANGED <<lockVars, releases, caller, microtasks, req>>
    ELSE IF data.k = "none"
    THEN \* JSON.parse or the destructuring throws: catch block
         /\ pc' = [pc EXCEPT ![s] = "done"]
         /\ log' = Logged(s, <<"alert">>)
         /\ IF isLocked
            THEN sessionRelease(s, microtasks)
            ELSE UNCHANGED <<lockVars, releases, microtasks>>
         /\ UNCHANGED <<caller, req>>
    ELSE handleFileSelection(s, OrElse(data.accept, data.type), data.multiple, data.id)

\* case 'fileInputClick' of handleMessage
FileInputClick(data) ==
    /\ microtasks = <<>>
    /\ msgs < MaxMessages
    /\ handleFileInputRequest(NextSession, data)
    /\ UNCHANGED <<platformOS, fsEvents, picker, reads, assets, lastActiveInputId, scripts, notifications>>
    /\ UNCHANGED fsVars

\* handleFileSelection from the settled acquire() to the picker's await; of its
\* arguments only targetId is kept from there on, the others are not read again
AfterAcquire(s, rest) ==
    IF promise[s] # "true"
    THEN \* if (!lockAcquired) return false
         /\ pc' = [pc EXCEPT ![s] = "done"]
         /\ req' = [req EXCEPT ![s] = NoReq]
         /\ log' = Logged(s, <<"notAcquired">>)
         /\ microtasks' = rest
         /\ UNCHANGED <<lockVars, releases, picker, lastActiveInputId>>
    ELSE IF PickerFor(req[s].accept) = "throw"
    THEN \* catch block: alert, release
         /\ pc' = [pc EXCEPT ![s] = "done"]
         /\ req' = [req EXCEPT ![s] = NoReq]
         /\ lastActiveInputId' = req[s].targetId
         /\ log' = Logged(s, <<"alert", "release">>)
         /\ sessionRelease(s, rest)
         /\ UNCHANGED picker
    ELSE /\ pc' = [pc EXCEPT ![s] = "picker"]
         /\ lastActiveInputId' = req[s].targetId
         /\ picker' = [picker EXCEPT ![s] =
                          [kind |-> PickerFor(req[s].accept), multiple |-> req[s].multiple]]
         /\ req' = [req EXCEPT ![s] = [NoReq EXCEPT !.targetId = req[s].targetId]]
         /\ log' = Logged(s, <<"picker">>)
         /\ microtasks' = rest
         /\ UNCHANGED <<lockVars, releases>>

\* what the native picker can answer: cancelled, a list of n assets (none
\* when n = 0), or a rejected promise
PickerResults ==
    [kind : {"canceled", "reject"}, n : {0}] \cup [kind : {"assets"}, n : 0..MaxAssets]

\* what a session does when the picker reports a cancel or no assets (lines 240-243)
CancelSteps_Alert == <<"alert", "release">>

CancelSteps == <<"release">>

\* the picker of session s returns r: lines 240-261
PickerReturns(s, r) ==
    /\ microtasks = <<>>
    /\ pc[s] = "picker"
    /\ picker' = [picker EXCEPT ![s] = NoPicker]
    /\ IF r.kind = "reject"
       THEN /\ pc' = [pc EXCEPT ![s] = "done"]
            /\ req' = [req EXCEPT ![s] = NoReq]
            /\ log' = Logged(s, <<"rejected", "alert", "release">>)
            /\ sessionRelease(s, microtasks)
            /\ UNCHANGED <<reads, assets>>
       ELSE IF r.kind = "canceled" \/ r.n = 0
       THEN /\ pc' = [pc EXCEPT ![s] = "done"]
            /\ req' = [req EXCEPT ![s] = NoReq]
            /\ log' = Logged(s, <<IF r.kind = "canceled" THEN "canceled" ELSE "noAssets">> \o CancelSteps)
            /\ sessionRelease(s, microtasks)
            /\ UNCHANGED <<reads, assets>>
       ELSE /\ pc' = [pc EXCEPT ![s] = "reading"]
            /\ assets' = [assets EXCEPT ![s] = [i \in 1..r.n |-> "reading"]]
            /\ reads' = [reads EXCEPT ![s] = [i \in 1..r.n |-> "pending"]]
            /\ log' = Logged(s, <<"read">>)
            /\ UNCHANGED <<lockVars, releases, microtasks, req>>
    /\ UNCHANGED <<caller, platformOS, fsEvents, lastActiveInputId, scripts>>
    /\ UNCHANGED fsVars
    /\ UNCHANGED msgVars
    /\ UNCHANGED pureVars

\* the entry the map callback settles to when processFile returned (ok) or
\* threw: try { ... return processFile } catch { return null } (lines 251-260)
MapEntry_Rethrow(ok) == IF ok THEN "file" ELSE "rejected"

MapEntry(ok) == IF ok THEN "file" ELSE "null"

\* Promise.all over the entries is settled: every entry fulfilled, or one rejected
AllSettled(entries) ==
    \/ \A j \in 1..Len(entries) : entries[j] # "pending"
    \/ \E j \in 1..Len(entries) : entries[j] = "rejected"

\* readAsStringAsync of asset i of session s completes (ok) or rejects, and
\* the map callback settles entry i; Promise.all resumes handleFileSelection
\* once it is settled
ReadCompletes(s, i, ok) ==
    /\ microtasks = <<>>
    /\ pc[s] = "reading"
    /\ i \in 1..Len(reads[s])
    /\ reads[s][i] = "pending"
    /\ assets' = [assets EXCEPT ![s][i] = IF ok THEN "ok" ELSE "failed"]
    /\ reads' = [reads EXCEPT ![s][i] = MapEntry(ok)]
    /\ microtasks' = IF AllSettled(reads'[s]) THEN Append(microtasks, s) ELSE microtasks
    /\ UNCHANGED <<lockVars, releases, pc, req, log, scripts>>
    /\ UNCHANGED <<caller, platformOS, fsEvents, picker, lastActiveInputId>>
    /\ UNCHANGED fsVars
    /\ UNCHANGED msgVars
    /\ UNCHANGED pureVars

\* processedFiles.filter(file => file !== null)
validFiles(processed) == SelectSeq(processed, LAMBDA f : f # "null")

\* the reconstruction script for the input with id targetId
FilesScript(targetId) == [kind |-> "files", target |-> targetId]

\* the success path between the filter and the release (lines 271-279): the
\* call webViewRef.current?.injectJavaScript(jsCode) is commented out (line 275)
injectFiles(scr, targetId) == scr

SuccessSteps == <<"success", "release">>

\* what a session does when no file could be processed (lines 265-269)
FailureSteps_Silent == <<"release">>

FailureSteps == <<"alert", "release">>

\* handleFileSelection from the settled Promise.all to its end: lines 263-288
AfterReads(s, rest) ==
    LET processed == reads[s]
        raised == \E j \in 1..Len(processed) : processed[j] = "rejected"
        failure == raised \/ Len(validFiles(processed)) = 0
    IN  /\ pc' = [pc EXCEPT ![s] = "done"]
        /\ req' = [req EXCEPT ![s] = NoReq]
        /\ reads' = [reads EXCEPT ![s] = <<>>]
        /\ assets' = [assets EXCEPT ![s] = <<>>]
        /\ log' = Logged(s, IF failure THEN FailureSteps ELSE SuccessSteps)
        /\ scripts' = IF failure THEN scripts ELSE injectFiles(scripts, req[s].targetId)
        /\ sessionRelease(s, rest)
        /\ UNCHANGED <<picker, lastActiveInputId>>

\* the event loop runs the next promise continuation
RunMicrotask ==
    /\ microtasks # <<>>
    /\ IF pc[Head(microtasks)] = "reading"
       THEN AfterReads(Head(microtasks), Tail(microtasks))
       ELSE /\ AfterAcquire(Head(microtasks), Tail(microtasks))
            /\ UNCHANGED <<reads, assets, scripts>>
    /\ UNCHANGED <<caller, platformOS, fsEvents>>
    /\ UNCHANGED fsVars
    /\ UNCHANGED msgVars
    /\ UNCHANGED pureVars

(***************************************************************************)
(* The host dispatcher: fullscreen video                                   *)
(***************************************************************************)
\* ScreenOrientation call of the id-th fullscreen handler (or of its timer), resumed at cont when it completes
NativeCall(op, arg, cont, id) == [op |-> op, arg |-> arg, cont |-> cont, id |-> id]

\* setStatusBarHidden(isFullscreen) (line 320)
StatusBarFor_Shown(isFullscreen) == FALSE

StatusBarFor(isFullscreen) == isFullscreen

\* case 'videoFullscreenChange' of handleMessage: handleFullscreenChange
\* runs up to its await of ScreenOrientation.lockAsync (lines 318-333, 353)
FullscreenChange(isFullscreen) ==
    /\ microtasks = <<>>
    /\ msgs < MaxMessages
    /\ fsEvents' = fsEvents + 1
    /\ isVideoFullscreen' = isFullscreen
    /\ statusBarHidden' = StatusBarFor(isFullscreen)
    /\ timers' = IF fullscreenTimeoutRef # 0
                 THEN ClearTimer(timers, <<"fs", fullscreenTimeoutRef>>)
                 ELSE timers
    /\ fullscreenTimeoutRef' = 0
    /\ nativeCalls' = Append(nativeCalls,
                             IF isFullscreen
                             THEN NativeCall("lockAsync", "LANDSCAPE", "enter", fsEvents + 1)
                             ELSE NativeCall("lockAsync", "DEFAULT", "exit", fsEvents + 1))
    /\ UNCHANGED <<locked, queue, promise, resolveCalls, waited, releases, caller>>
    /\ UNCHANGED <<platformOS, orientationLock, lastOrientation, notifications, mounted>>
    /\ UNCHANGED sessionVars

\* the values of ScreenOrientation.Orientation a device reports
Orientations == {"PORTRAIT_UP", "LANDSCAPE_LEFT", "LANDSCAPE_RIGHT"}

\* the orientations a device can report while it applies the lock
Reports(lock) ==
    IF lock = "LANDSCAPE" THEN {"LANDSCAPE_LEFT", "LANDSCAPE_RIGHT"} ELSE Orientations

\* the test of the safety callback (lines 342-343)
IsLandscape_Always(orientation) == TRUE

IsLandscape(orientation) == orientation \in {"LANDSCAPE_LEFT", "LANDSCAPE_RIGHT"}

\* the oldest ScreenOrientation call in flight completes (ok) or rejects, and
\* the code awaiting it continues; orientation: what the device reports
NativeCompletes(ok, orientation) ==
    /\ microtasks = <<>>
    /\ nativeCalls # <<>>
    /\ LET call == Head(nativeCalls)
           rest == Tail(nativeCalls)
       IN  /\ orientationLock' = IF call.op = "lockAsync" /\ ok THEN call.arg ELSE orientationLock
           /\ IF call.cont = "enter" /\ ok
              THEN \* fullscreenTimeoutRef.current = setTimeout(..., 5 * 60 * 1000)
                   /\ fullscreenTimeoutRef' = call.id
                   /\ timers' = timers \cup {<<"fs", call.id>>}
                   /\ nativeCalls' = rest
                   /\ UNCHANGED <<isVideoFullscreen, statusBarHidden, lastOrientation>>
              ELSE IF call.cont = "safety" /\ ok
              THEN \* the timer callback after getOrientationAsync (lines 339-346)
                   /\ orientation \in Reports(orientationLock)
                   /\ lastOrientation' = orientation
                   /\ nativeCalls' = IF IsLandscape(orientation)
                                     THEN Append(rest, NativeCall("lockAsync", "DEFAULT", "revert", call.id))
                                     ELSE rest
                   /\ UNCHANGED <<isVideoFullscreen, statusBarHidden, fullscreenTimeoutRef, timers>>
              ELSE IF call.cont = "revert" /\ ok
              THEN \* lines 347-348
                   /\ statusBarHidden' = FALSE
                   /\ isVideoFullscreen' = FALSE
                   /\ nativeCalls' = rest
                   /\ UNCHANGED <<fullscreenTimeoutRef, timers, lastOrientation>>
              ELSE \* exit done, or a rejection (caught and logged, or unhandled)
                   /\ nativeCalls' = rest
                   /\ lastOrientation' = IF call.cont = "safety" THEN "none" ELSE lastOrientation
                   /\ UNCHANGED <<isVideoFullscreen, statusBarHidden, fullscreenTimeoutRef, timers>>
    /\ UNCHANGED <<locked, queue, promise, resolveCalls, waited, releases, caller>>
    /\ UNCHANGED <<platformOS, fsEvents, mounted>>
    /\ UNCHANGED sessionVars
    /\ UNCHANGED msgVars
    /\ UNCHANGED pureVars

\* the handles setTimeout can return: wait timers by call, safety timers by fullscreen event
TimerIds == {"wait", "fs"} \X (CallIds \cup 1..MaxMessages)

\* a setTimeout callback runs: the wait timeout of an acquire() call, or the
\* fullscreen safety timeout up to its await of getOrientationAsync
RunTimer(t) ==
    /\ microtasks = <<>>
    /\ t \in timers
    /\ IF t[1] = "wait"
       THEN /\ waitTimeout(t[2])
            /\ microtasks' = IF promise[t[2]] = "pending" /\ t[2] \in Sessions
                             THEN Append(microtasks, t[2])
                             ELSE microtasks
            /\ UNCHANGED nativeCalls
       ELSE /\ timers' = ClearTimer(timers, t)
            /\ nativeCalls' = Append(nativeCalls, NativeCall("getOrientationAsync", "-", "safety", t[2]))
            /\ UNCHANGED <<locked, queue, promise, resolveCalls, waited, microtasks>>
    /\ UNCHANGED <<releases, caller, platformOS, fsEvents, pc, req, picker, reads, assets, log,
                   lastActiveInputId, scripts>>
    /\ UNCHANGED <<isVideoFullscreen, statusBarHidden, fullscreenTimeoutRef, orientationLock, lastOrientation,
                   mounted>>
    /\ UNCHANGED msgVars
    /\ UNCHANGED pureVars

\* the cleanup of the screen component runs when it unmounts (lines 362-373):
\* unlockAsync() is started and not awaited, the timer the reference holds is
\* cleared. The WebView is gone and delivers no further message; promises
\* and timers of the handlers that ran stay alive
Unmount ==
    /\ microtasks = <<>>
    /\ mounted
    /\ mounted' = FALSE
    /\ nativeCalls' = Append(nativeCalls, NativeCall("lockAsync", "DEFAULT", "unmount", 0))
    /\ timers' = IF fullscreenTimeoutRef # 0
                 THEN ClearTimer(timers, <<"fs", fullscreenTimeoutRef>>)
                 ELSE timers
    /\ UNCHANGED <<locked, queue, promise, resolveCalls, waited, releases, caller>>
    /\ UNCHANGED <<platformOS, fsEvents, isVideoFullscreen, statusBarHidden, fullscreenTimeoutRef,
                   orientationLock, lastOrientation>>
    /\ UNCHANGED sessionVars
    /\ UNCHANGED msgVars
    /\ UNCHANGED pureVars

(***************************************************************************)
(* The host dispatcher: form events and the message switch                 *)
(***************************************************************************)
\* signupFormHelperJS, the script handleFormSubmission injects
SignupHelper == [kind |-> "signupHelper", target |-> "-"]

\* handleFormSubmission(action, method, isSignup)
handleFormSubmission_Always(isSignup) ==
    /\ scripts' = Append(scripts, SignupHelper)
    /\ UNCHANGED notifications

handleFormSubmission(isSignup) ==
    /\ scripts' = IF isSignup THEN Append(scripts, SignupHelper) ELSE scripts
    /\ UNCHANGED notifications

\* handleFormError(errors), nonEmpty: errors.length > 0
handleFormError_Silent(nonEmpty) ==
    /\ UNCHANGED notifications
    /\ UNCHANGED scripts

handleFormError(nonEmpty) ==
    /\ notifications' = IF nonEmpty THEN Append(notifications, "errorAlert") ELSE notifications
    /\ UNCHANGED scripts

\* handleFormSuccess(message)
handleFormSuccess ==
    /\ notifications' = Append(notifications,
                               IF platformOS = "android" THEN "successToast" ELSE "successAlert")
    /\ UNCHANGED scripts

\* the message types the switch of handleMessage has a case for
FormTypes == {"formSubmit", "formError", "formSuccess"}
KnownTypes == {"fileInputClick", "videoFullscreenChange"} \cup FormTypes

\* message.data of a message that is no fileInputClick, read as a file request
NoClick(hasData) ==
    [k |-> IF hasData THEN "data" ELSE "none", accept |-> Undef, type |-> Undef,
     multiple |-> FALSE, id |-> "f1"]

\* the messages the WebView can post: text that is no JSON, a type without a
\* case, and each known type with and without a data object
Messages ==
    {[info |-> MsgInfo(FALSE, "-", FALSE, FALSE), click |-> NoClick(FALSE)],
     [info |-> MsgInfo(TRUE, "other", FALSE, FALSE), click |-> NoClick(FALSE)]}
    \cup {[info |-> MsgInfo(TRUE, "fileInputClick", d.k = "data", FALSE), click |-> d] : d \in ClickData}
    \cup {[info |-> MsgInfo(TRUE, t, TRUE, f), click |-> NoClick(TRUE)] :
              t \in {"formSubmit", "formError", "videoFullscreenChange"}, f \in BOOLEAN}
    \cup {[info |-> MsgInfo(TRUE, "formSuccess", TRUE, FALSE), click |-> NoClick(TRUE)]}
    \cup {[info |-> MsgInfo(TRUE, t, FALSE, FALSE), click |-> NoClick(FALSE)] :
              t \in KnownTypes \ {"fileInputClick"}}

\* the branch of handleMessage a message takes: "catch" when JSON.parse
\* throws, the case of its type, "default" when no case matches
Route_UnknownAsClick(info) ==
    IF ~info.json THEN "catch"
    ELSE IF info.type \in KnownTypes THEN info.type
    ELSE "fileInputClick"

Route_FormErrorAsClick(info) ==
    IF ~info.json THEN "catch"
    ELSE IF info.type = "formError" THEN "fileInputClick"
    ELSE IF info.type \in KnownTypes THEN info.type
    ELSE "default"

Route(info) ==
    IF ~info.json THEN "catch"
    ELSE IF info.type \in KnownTypes THEN info.type
    ELSE "default"

\* handleMessage(event): lines 375-409. A case that reads a field of a missing
\* message.data throws a TypeError into the catch block, which only logs it
handleMessage(m) ==
    /\ microtasks = <<>>
    /\ mounted
    /\ msgs < MaxMessages
    /\ received' = received + 1
    /\ lastMsg' = m.info
    /\ UNCHANGED pureVars
    /\ LET case == Route(m.info)
       IN  IF case = "fileInputClick"
           THEN FileInputClick(m.click)
           ELSE IF case = "videoFullscreenChange" /\ m.info.hasData
           THEN FullscreenChange(m.info.flag)
           ELSE IF case \in FormTypes /\ m.info.hasData
           THEN /\ IF case = "formSubmit" THEN handleFormSubmission(m.info.flag)
                   ELSE IF case = "formError" THEN handleFormError(m.info.flag)
                   ELSE handleFormSuccess
                /\ UNCHANGED <<locked, queue, timers, promise, resolveCalls, waited, releases, caller>>
                /\ UNCHANGED <<platformOS, fsEvents, microtasks, pc, req, picker, reads, assets, log,
                               lastActiveInputId>>
                /\ UNCHANGED fsVars
           ELSE \* console.log('Unhandled message type') or console.error(...)
                /\ UNCHANGED <<locked, queue, timers, promise, resolveCalls, waited, releases, caller>>
                /\ UNCHANGED <<platformOS, fsEvents, notifications>>
                /\ UNCHANGED sessionVars
                /\ UNCHANGED fsVars

(***************************************************************************)
(* The screen: every interleaving of inbound messages, picker answers,     *)
(* file reads, orientation calls and timers                                *)
(***************************************************************************)
Init ==
    /\ GateInit
    /\ platformOS \in {"android", "ios"}
    /\ ScreenInit
    /\ PureIdle

Next ==
    \/ \E m \in Messages : handleMessage(m)
    \/ RunMicrotask
    \/ \E s \in Sessions, r \in PickerResults : PickerReturns(s, r)
    \/ \E s \in Sessions, i \in 1..MaxAssets, ok \in BOOLEAN : ReadCompletes(s, i, ok)
    \/ \E ok \in BOOLEAN, o \in Orientations : NativeCompletes(ok, o)
    \/ \E t \in TimerIds : RunTimer(t)

Spec == Init /\ [][Next]_vars

\* the event loop drains its microtasks; every native picker returns, every
\* file read and every ScreenOrientation call completes or fails, and every
\* timer that stays armed fires
LiveSpec ==
    /\ Spec
    /\ WF_vars(RunMicrotask)
    /\ \A s \in Sessions : WF_vars(\E r \in PickerResults : PickerReturns(s, r))
    /\ \A s \in Sessions, i \in 1..MaxAssets : WF_vars(\E ok \in BOOLEAN : ReadCompletes(s, i, ok))
    /\ WF_vars(\E ok \in BOOLEAN, o \in Orientations : NativeCompletes(ok, o))
    /\ \A t \in TimerIds : WF_vars(RunTimer(t))

\* the life of the screen up to and beyond its unmount
LifeNext ==
    \/ Next
    \/ Unmount

LifeSpec == Init /\ [][LifeNext]_vars

(***************************************************************************)
(* File names, MIME types and the normalization of picker assets           *)
(***************************************************************************)
\* the parts file names are made of; a file name is a string value whose toks
\* are the parts its dots separate (filename.split('.')), "" having none
NameParts == {"", "report", "pdf", "PDF", "Mp4", "jpeg", "xyz", "constructor"}
FileNames == {Str(t) : t \in UNION {[1..n -> NameParts] : n \in 0..MaxParts}}

\* String.prototype.toLowerCase on a part
toLowerCase(part) ==
    IF part = "PDF" THEN "pdf"
    ELSE IF part = "Mp4" THEN "mp4"
    ELSE part

\* the mimeTypes table of getMimeType
mimeTypes ==
    [jpg |-> "image/jpeg", jpeg |-> "image/jpeg", png |-> "image/png", gif |-> "image/gif",
     webp |-> "image/webp", mp4 |-> "video/mp4", mov |-> "video/quicktime",
     avi |-> "video/x-msvideo", mkv |-> "video/x-matroska", pdf |-> "application/pdf",
     doc |-> "application/msword",
     docx |-> "application/vnd.openxmlformats-officedocument.wordprocessingml.document",
     xls |-> "application/vnd.ms-excel",
     xlsx |-> "application/vnd.openxmlformats-officedocument.spreadsheetml.sheet",
     ppt |-> "application/vnd.ms-powerpoint",
     pptx |-> "application/vnd.openxmlformats-officedocument.presentationml.presentation",
     txt |-> "text/plain", zip |-> "application/zip", rar |-> "application/x-rar-compressed"]

\* the property names an object literal inherits from Object.prototype
ObjectPrototype ==
    {"constructor", "__proto__", "toString", "valueOf", "hasOwnProperty", "isPrototypeOf",
     "propertyIsEnumerable", "toLocaleString"}

\* an inherited member: a function or an object, no string
Inherited == [k |-> "object", toks |-> <<>>]

\* obj[key] on an object literal: an own property, else an inherited member,
\* else undefined
Get(obj, key) ==
    IF key \in DOMAIN obj THEN Str(<<obj[key]>>)
    ELSE IF key \in ObjectPrototype THEN Inherited
    ELSE Undef

OctetStream == Str(<<"application/octet-stream">>)

\* filename.split('.').pop()?.toLowerCase() || ''
extensionOf(filename) ==
    IF filename.toks = <<>> THEN "" ELSE toLowerCase(filename.toks[Len(filename.toks)])

\* getMimeType(filename): lines 130-156
getMimeType(filename) == OrElse(Get(mimeTypes, extensionOf(filename)), OctetStream)

\* `file_${Date.now()}`
SyntheticName(now) == Str(<<"file_" \o ToString(now)>>)

\* the fields fileName, name and mimeType a picker asset can carry
AssetNames == {Undef, Str(<<>>), Str(<<"report", "PDF">>), Str(<<"clip", "constructor">>)}
AssetTypes == {Undef, Str(<<>>), Str(<<"image/png">>)}
Assets == [fileName : AssetNames, name : AssetNames, mimeType : AssetTypes]

\* asset.fileName || asset.name || `file_${Date.now()}`
fileNameOf_NameFirst(asset, now) == OrElse(asset.name, OrElse(asset.fileName, SyntheticName(now)))

fileNameOf(asset, now) == OrElse(asset.fileName, OrElse(asset.name, SyntheticName(now)))

\* asset.mimeType || getMimeType(fileName)
mimeTypeOf(asset, now) == OrElse(asset.mimeType, getMimeType(fileNameOf(asset, now)))

\* one call of getMimeType, or the normalization of one asset, is to be evaluated
FileInit ==
    /\ GateInit
    /\ platformOS = "android"
    /\ ScreenInit
    /\ page = <<>> /\ web = NoWeb
    /\ calc \in {[NoCalc EXCEPT !.fn = "getMimeType", !.asset.fileName = f] : f \in FileNames}
                \cup {[NoCalc EXCEPT !.fn = "normalize", !.asset = a, !.now = n] :
                          a \in Assets, n \in 1..MaxClock}

\* getMimeType(filename) returns
EvalGetMimeType ==
    /\ calc.fn = "getMimeType" /\ ~calc.done
    /\ calc' = [calc EXCEPT !.done = TRUE, !.type = getMimeType(calc.asset.fileName)]
    /\ UNCHANGED <<hostVars, page, web>>

\* the map callback builds the arguments of processFile, which returns them
\* as the name and the type of the encoded file (lines 251-256, 115-122)
EvalNormalize ==
    /\ calc.fn = "normalize" /\ ~calc.done
    /\ calc' = [calc EXCEPT !.done = TRUE,
                            !.name = fileNameOf(calc.asset, calc.now),
                            !.type = mimeTypeOf(calc.asset, calc.now)]
    /\ UNCHANGED <<hostVars, page, web>>

FileNext == EvalGetMimeType \/ EvalNormalize

FileSpec == FileInit /\ [][FileNext]_vars

(***************************************************************************)
(* The scripts running in the embedded page (src/unnamed/part_003)         *)
(***************************************************************************)
\* the elements a page is made of, in document order; form = 0: outside any form
Upload == [tag |-> "INPUT", type |-> "file", id |-> "upload", accept |-> "image/*",
           multiple |-> FALSE, form |-> 1]
TitleInput == [tag |-> "INPUT", type |-> "text", id |-> "title", accept |-> "",
               multiple |-> FALSE, form |-> 1]
Notes == [tag |-> "TEXTAREA", type |-> "textarea", id |-> "notes", accept |-> "",
          multiple |-> FALSE, form |-> 1]
Category == [tag |-> "SELECT", type |-> "select-one", id |-> "category", accept |-> "",
             multiple |-> FALSE, form |-> 1]
Anonymous == [tag |-> "INPUT", type |-> "file", id |-> "", accept |-> "",
              multiple |-> TRUE, form |-> 1]
SubmitButton == [tag |-> "BUTTON", type |-> "submit", id |-> "send", accept |-> "",
                 multiple |-> FALSE, form |-> 1]
Avatar == [tag |-> "INPUT", type |-> "file", id |-> "avatar", accept |-> "video/*",
           multiple |-> FALSE, form |-> 0]
Document == <<Upload, TitleInput, Notes, Category, Anonymous, SubmitButton, Avatar>>
ElementIndexes == 1..Len(Document)
Elements == {Document[i] : i \in ElementIndexes}

\* the pages: every selection of the elements, in document order
Pages == {SelectSeq(Document, LAMBDA e : e \in chosen) : chosen \in SUBSET Elements}

IsFileInput(e) == e.tag = "INPUT" /\ e.type = "file"

\* requestData of handleFileInputClick
RequestData(e) ==
    [type |-> IF e.accept # "" THEN e.accept ELSE "*/*",
     accept |-> e.accept, multiple |-> e.multiple, id |-> e.id]

\* the default action of a click whose dispatch ended without preventDefault:
\* a file input opens the native file dialog
DefaultAction(e, prevented) == IF IsFileInput(e) /\ ~prevented THEN 1 ELSE 0

\* whether the listener has called preventDefault when the dispatch of the
\* click ends: handleFileInputClick runs in the debounce timer only
PreventedInDispatch(e) == FALSE

\* a click on element i: the capture listener is the function debounce returns
Click(i) ==
    /\ web.script = "observe"
    /\ i <= Len(page)
    /\ Len(web.clicks) < MaxClicks
    /\ web' = [web EXCEPT
                  !.clicks = Append(@, i),
                  !.dialogs = @ + DefaultAction(page[i], PreventedInDispatch(page[i])),
                  !.isCalled = TRUE,
                  !.pending = IF web.isCalled THEN @ ELSE i]
    /\ UNCHANGED <<hostVars, calc, page>>

\* the timer of debounce fires, 300 ms after the click it kept: later()
DebounceFires ==
    /\ web.script = "observe"
    /\ web.isCalled
    /\ web' = [web EXCEPT
                  !.isCalled = FALSE,
                  !.pending = 0,
                  !.posted = IF IsFileInput(page[web.pending])
                             THEN Append(@, [type |-> "fileInputClick",
                                             data |-> RequestData(page[web.pending])])
                             ELSE @]
    /\ UNCHANGED <<hostVars, calc, page>>

\* file names as the pieces of text around their quote characters
ScriptNames == {<<"clip.mp4">>, <<"it", "'", "s.png">>, <<"6", "\"", ".png">>}
ScriptFiles == [name : ScriptNames, type : {"image/png"}]
ScriptTargets == {"upload", "gone"}
FileLists == UNION {[1..n -> ScriptFiles] : n \in 1..MaxAssets}

\* the text `...'${text}'...` holds one string literal with that text
ClosesLiteral(pieces, quote) == \E k \in 1..Len(pieces) : pieces[k] = quote

\* whether jsCode is a program: each name is interpolated between double
\* quotes (new File) and between single quotes (previewUrls, console.log)
Parses(targetId, files) ==
    /\ ~ClosesLiteral(<<targetId>>, "'")
    /\ \A k \in 1..Len(files) :
          /\ ~ClosesLiteral(files[k].name, "\"")
          /\ ~ClosesLiteral(files[k].name, "'")

\* indexes of the elements with an id, and of those the selector
\* input[type="file"] matches
ById(targetId) == {i \in 1..Len(page) : targetId # "" /\ page[i].id = targetId}
FileInputs == {i \in 1..Len(page) : IsFileInput(page[i])}
Last(indexes) == IF indexes = {} THEN 0 ELSE CHOOSE i \in indexes : \A j \in indexes : j <= i
First(indexes) == IF indexes = {} THEN 0 ELSE CHOOSE i \in indexes : \A j \in indexes : i <= j

\* document.getElementById('${targetId}'), else the last of
\* document.querySelectorAll('input[type="file"]'), else 0 (the script throws)
Locate(targetId) ==
    LET byId == First(ById(targetId))
    IN  IF byId # 0 THEN byId ELSE Last(FileInputs)

\* fileInput.closest('form')
FormOf(i) == page[i].form

\* form.querySelector('button[type="submit"]'), else input[type="submit"]; 0: null
SubmitOf(form) ==
    LET button == First({i \in 1..Len(page) : /\ page[i].form = form
                                               /\ page[i].tag = "BUTTON"
                                               /\ page[i].type = "submit"})
    IN  IF button # 0 THEN button
        ELSE First({i \in 1..Len(page) : /\ page[i].form = form
                                         /\ page[i].tag = "INPUT"
                                         /\ page[i].type = "submit"})

\* form.querySelectorAll('input:not([type="file"]):not([type="submit"]):not([type="hidden"])')
otherInputs(form) ==
    {i \in 1..Len(page) : /\ page[i].form = form
                          /\ page[i].tag = "INPUT"
                          /\ page[i].type \notin {"file", "submit", "hidden"}}

\* isUploadOnlyForm && submitButton, inside if (form)
AutoSubmits(i) ==
    /\ FormOf(i) # 0
    /\ otherInputs(FormOf(i)) = {}
    /\ SubmitOf(FormOf(i)) # 0

\* what jsCode, built for targetId and the encoded files, does to the page w:
\* nothing when it is no program or when it throws 'No file input found'
Attach(w, targetId, files) ==
    LET fileInput == Locate(targetId)
        asked == [w EXCEPT !.ran = TRUE, !.targetId = targetId, !.input = files]
    IN  IF ~Parses(targetId, files) \/ fileInput = 0
        THEN asked
        ELSE [asked EXCEPT
                 !.target = fileInput,
                 !.files = [k \in 1..Len(files) |-> files[k].name],
                 !.marked = TRUE,
                 !.events = <<"change", "input">>,
                 !.submitTimer = AutoSubmits(fileInput)]

\* the page evaluates jsCode, built for targetId and the encoded files
RunFilesScript(targetId, files) ==
    /\ web.script = "attach"
    /\ ~web.ran
    /\ web' = Attach(web, targetId, files)
    /\ UNCHANGED <<hostVars, calc, page>>

\* the timer of the auto-submit fires: submitButton.click()
SubmitTimerFires ==
    /\ web.script = "attach"
    /\ web.submitTimer
    /\ web' = [web EXCEPT !.submitTimer = FALSE, !.submits = @ + 1]
    /\ UNCHANGED <<hostVars, calc, page>>

\* a loaded page with the click observer injected, or a page about to be
\* handed the files of a selection
PageInit ==
    /\ GateInit
    /\ platformOS = "android"
    /\ ScreenInit
    /\ calc = NoCalc
    /\ page \in Pages
    /\ web \in {[NoWeb EXCEPT !.script = kind] : kind \in {"observe", "attach"}}

PageNext ==
    \/ \E i \in ElementIndexes : Click(i)
    \/ DebounceFires
    \/ \E targetId \in ScriptTargets, files \in FileLists : RunFilesScript(targetId, files)
    \/ SubmitTimerFires

PageSpec == PageInit /\ [][PageNext]_vars

(***************************************************************************)
(* The fullscreen detection script (fullscreenDetectionScript)             *)
(***************************************************************************)
\* the message the script posts to the host
FullscreenMessage(isFullscreen) ==
    [type |-> "videoFullscreenChange", data |-> [isFullscreen |-> isFullscreen]]

\* the script's test before it posts from detectFullscreenChange and from the
\* player observers: only send message if state changed
StateChanged(isFullscreen, isInFullscreen) == isFullscreen # isInFullscreen

\* detectFullscreenChange(), w being the page after the DOM change, and the
\* body of the JW Player observer: both compare with isInFullscreen
Detect(w, isFullscreen) ==
    IF StateChanged(isFullscreen, w.isInFullscreen)
    THEN [w EXCEPT !.isInFullscreen = isFullscreen,
                   !.posted = Append(@, FullscreenMessage(isFullscreen))]
    ELSE w

\* a fullscreenchange event (standard or vendor-prefixed), the document having
\* a fullscreen element or not; also the delayed call after a click on a
\* fullscreen button
FullscreenEvent(element) ==
    /\ web.script = "fullscreen"
    /\ web.domEvents < MaxEvents
    /\ web' = Detect([web EXCEPT !.domEvents = @ + 1, !.fullscreenElement = element], element)
    /\ UNCHANGED <<hostVars, calc, page>>

\* the events the listeners of enhanceVideoElements are registered for, and
\* the isFullscreen value each listener posts
VideoEvents ==
    {"webkitbeginfullscreen", "webkitendfullscreen", "enterpictureinpicture", "leavepictureinpicture"}
VideoFlag(event) == event \in {"webkitbeginfullscreen", "enterpictureinpicture"}

\* a video element fires one of these events: its listener posts at once
VideoEvent(event) ==
    /\ web.script = "fullscreen"
    /\ web.domEvents < MaxEvents
    /\ web' = [web EXCEPT !.domEvents = @ + 1,
                          !.posted = Append(@, FullscreenMessage(VideoFlag(event)))]
    /\ UNCHANGED <<hostVars, calc, page>>

\* the class attribute of a JW Player element changes; has: it now carries
\* jwplayer-fullscreen or jw-flag-fullscreen
PlayerClassChange(has) ==
    /\ web.script = "fullscreen"
    /\ web.domEvents < MaxEvents
    /\ web' = Detect([web EXCEPT !.domEvents = @ + 1, !.playerClass = has], has)
    /\ UNCHANGED <<hostVars, calc, page>>

\* a page has just loaded and handleWebViewLoad has injected the script
DetectInit ==
    /\ GateInit
    /\ platformOS = "android"
    /\ ScreenInit
    /\ calc = NoCalc
    /\ page = <<>>
    /\ web = [NoWeb EXCEPT !.script = "fullscreen"]

DetectNext ==
    \/ \E element \in BOOLEAN : FullscreenEvent(element)
    \/ \E event \in VideoEvents : VideoEvent(event)
    \/ \E has \in BOOLEAN : PlayerClassChange(has)

DetectSpec == DetectInit /\ [][DetectNext]_vars

(***************************************************************************)
(* Properties of the bare PickerLock (LockSpec; C10 under LockLiveSpec)     *)
(***************************************************************************)

\* C1: at most one caller is a holder at any instant, a holder being a caller
\* whose acquire() resolved true and who has not yet called release().
C1_MutualExclusion == Cardinality({caller[c] : c \in Holders}) <= 1

\* C2: a waiter resumed by release() owns the gate without a gap: from the
\* moment its acquire() resolves true until it calls release() itself,
\* isLocked() returns true.
C2_TransferWithoutGap == \A c \in Holders : c \in waited => isLocked

\* C7: a waiter is never granted after it timed out: a call that resolved
\* false is neither in the wait queue nor has an armed timer, and every
\* acquire() call is resolved at most once, exactly once when it is settled.
C7_NoGrantAfterTimeout ==
    \A c \in CallIds :
        /\ promise[c] = "false" => IndexOf(queue, c) = 0 /\ <<"wait", c>> \notin timers
        /\ resolveCalls[c] <= 1
        /\ promise[c] \in {"true", "false"} <=> resolveCalls[c] = 1

\* a call timed out, and a call that queued behind it was granted by a later release()
C7_Witness ==
    \E c, d \in CallIds :
        /\ c < d /\ {c, d} \subseteq waited
        /\ promise[c] = "false" /\ promise[d] = "true"

\* C8: release() with an empty wait queue sets locked to false and grants
\* nothing; with a non-empty queue it grants exactly one waiter, the
\* earliest-enqueued one still in the queue.
C8_ReleaseGrantsFifo ==
    [][(\E h \in CallIds : releases'[h] # releases[h]) =>
         LET granted == {c \in CallIds : promise[c] = "pending" /\ promise'[c] = "true"}
         IN  IF queue = <<>>
             THEN locked' = FALSE /\ granted = {} /\ queue' = <<>>
             ELSE granted = {Head(queue)} /\ queue' = Tail(queue)]_vars

\* the earlier of two waiters has been granted while the later one is still queued
C8_Witness ==
    \E c, d \in CallIds :
        /\ c < d /\ {c, d} \subseteq waited
        /\ promise[c] = "true" /\ promise[d] = "pending" /\ IndexOf(queue, d) # 0

\* C9: an acquire() issued while the gate is held never resolves true before
\* a release(): a call resolves true immediately only when nobody holds the gate.
C9_NoGrantWhileHeld ==
    [][\A c \in CallIds : (promise[c] = "none" /\ promise'[c] = "true") => Holders = {}]_vars

\* C10: every acquire() call eventually resolves, also when the holder never
\* calls release(): a pending call becomes true (granted) or false (timed out).
C10_BoundedWait ==
    \A c \in CallIds : (promise[c] = "pending") ~> (promise[c] \in {"true", "false"})

\* a waiter resolved false although no holder has ever called release()
C10_Witness ==
    /\ \E c \in CallIds : c \in waited /\ promise[c] = "false"
    /\ \A d \in CallIds : releases[d] = 0
    /\ Holders # {}

(***************************************************************************)
(* Properties of the dispatcher (checked under Spec)                       *)
(***************************************************************************)
\* the sessions whose handler has been started and has not returned yet
Active == {s \in Sessions : pc[s] \in {"awaitAcquire", "picker", "reading"}}

\* how often event e occurs in log l
Count(l, e) == Cardinality({i \in 1..Len(l) : l[i] = e})

\* C3: at most one picker session is active at a time: a fileInputClick is not
\* accepted while the handling of an earlier accepted one has not completed.
C3_OneSessionAtATime == Cardinality(Active) <= 1

\* a click arrived and was turned away while an earlier session had its picker
\* open or its files being read
C3_Witness ==
    \E s, r \in Sessions :
        /\ s < r
        /\ pc[s] \in {"picker", "reading"}
        /\ pc[r] = "done" /\ promise[r] = "none"

\* C4: every exit path of a session that follows a successful acquire() calls
\* release() exactly once (not before the session ends), and once no session
\* is being handled the gate is not locked.
C4_GuaranteedRelease ==
    /\ \A s \in Sessions :
           promise[s] = "true" =>
               /\ releases[s] = (IF pc[s] = "done" THEN 1 ELSE 0)
               /\ Count(log[s], "release") = releases[s]
    /\ Active = {} => ~isLocked

\* one session ended in the catch block (picker rejected), another ended
\* because every read failed, and both have released the gate
C4_Witness ==
    \E s, r \in Sessions :
        /\ log[s] = <<"acquire", "picker", "rejected", "alert", "release">>
        /\ log[r] = <<"acquire", "picker", "read", "alert", "release">>
        /\ releases[s] = 1 /\ releases[r] = 1 /\ ~isLocked

\* session s was turned away at the gate: nothing but what notice reports
Dropped(s, notice) ==
    /\ pc[s] = "done"
    /\ log[s] = notice
    /\ promise[s] = "none"
    /\ picker[s] = NoPicker
    /\ IndexOf(queue, s) = 0

C6_InjectBeforeRelease ==
    [][\A s \in Sessions :
           (pc[s] = "reading" /\ pc'[s] = "done" /\ Count(log'[s], "success") = 1) =>
               /\ scripts' = Append(scripts, FilesScript(req[s].targetId))
               /\ \E i, j \in 1..Len(log'[s]) :
                      i < j /\ log'[s][i] = "inject" /\ log'[s][j] = "release"]_vars

\* C11: provided the native picker eventually returns and every file read
\* eventually completes or fails, whenever the gate is locked by a picker
\* session it is eventually unlocked again.
C11_GateEventuallyUnlocked == isLocked ~> ~isLocked

\* a session that went through the picker and the file reads has released the gate
C11_Witness ==
    \E s \in Sessions :
        /\ log[s] = <<"acquire", "picker", "read", "success", "release">>
        /\ ~isLocked

\* C12: when the picker reports cancelled or returns no assets, the session
\* ends silently: no alert is shown, no file is materialized, no script is
\* injected, and the gate is released.
C12_SilentCancel ==
    [][\A s \in Sessions :
           (/\ pc[s] = "picker" /\ pc'[s] # "picker"
            /\ Count(log'[s], "canceled") + Count(log'[s], "noAssets") = 1) =>
               /\ pc'[s] = "done"
               /\ Count(log'[s], "alert") = 0
               /\ Count(log'[s], "read") = 0 /\ reads'[s] = <<>> /\ assets'[s] = <<>>
               /\ scripts' = scripts /\ notifications' = notifications
               /\ releases'[s] = 1 /\ ~isLocked']_vars

\* one session ended on a cancelled picker, another on an empty asset list
C12_Witness ==
    \E s, r \in Sessions :
        /\ log[s] = <<"acquire", "picker", "canceled", "release">>
        /\ log[r] = <<"acquire", "picker", "noAssets", "release">>
        /\ ~isLocked

\* every asset of session s has been read and every read failed
AllFailed(s) == \A i \in 1..Len(assets[s]) : assets[s][i] = "failed"

\* C13: when every selected file fails to materialize, the user is alerted,
\* no script is injected, and the gate is released.
C13_TotalFailure ==
    [][\A s \in Sessions :
           (pc[s] = "reading" /\ pc'[s] = "done" /\ AllFailed(s)) =>
               /\ log'[s] = log[s] \o <<"alert", "release">>
               /\ scripts' = scripts
               /\ releases'[s] = releases[s] + 1 /\ ~isLocked']_vars

\* a session whose reads all failed has alerted the user and released the gate
C13_Witness ==
    \E s \in Sessions :
        /\ log[s] = <<"acquire", "picker", "read", "alert", "release">>
        /\ releases[s] = 1 /\ ~isLocked

\* C14: the result of materializing a list of descriptors has the length and
\* the order of that list; entry i is null exactly when read i failed, the
\* other entries are encoded files; and the batch does not raise (the session
\* takes the success path) when at least one read succeeded.
C14_FailureIsolation ==
    /\ [](\A s \in Sessions :
              /\ Len(reads[s]) = Len(assets[s])
              /\ \A i \in 1..Len(reads[s]) :
                     /\ reads[s][i] = "null" <=> assets[s][i] = "failed"
                     /\ reads[s][i] = "file" <=> assets[s][i] = "ok"
                     /\ reads[s][i] = "pending" <=> assets[s][i] = "reading")
    /\ [][\A s \in Sessions :
              (pc[s] = "reading" /\ pc'[s] = "done" /\ ~AllFailed(s)) =>
                  /\ Count(log'[s], "alert") = 0
                  /\ log'[s] = log[s] \o <<"success", "release">>]_vars

\* of two files the first read failed and the second succeeded
C14_Witness ==
    \E s \in Sessions :
        /\ assets[s] = <<"failed", "ok">>
        /\ reads[s] = <<"null", "file">>

(***************************************************************************)
(* Properties of the message switch (Spec)                                 *)
(***************************************************************************)
\* the step handles an inbound message; lastMsg' tells which
Handles == received' # received

\* no session shows an alert or a notice in the step
NoSessionNotice ==
    \A s \in Sessions :
        /\ Count(log'[s], "alert") = Count(log[s], "alert")
        /\ Count(log'[s], "notice") = Count(log[s], "notice")

\* C15: a message whose text is no JSON, and a message whose type has no
\* case, are logged and dropped with no other effect: gate, fullscreen flag,
\* status-bar flag and safety timer unchanged, no picker, no script, no
\* notification.
C15_UnknownDropped ==
    [][(Handles /\ (~lastMsg'.json \/ lastMsg'.type = "other")) =>
           /\ UNCHANGED <<locked, queue, timers, promise, releases>>
           /\ UNCHANGED <<isVideoFullscreen, statusBarHidden, fullscreenTimeoutRef, orientationLock, nativeCalls>>
           /\ UNCHANGED <<pc, picker, reads, log, lastActiveInputId, scripts, notifications>>]_vars

\* a malformed message arrived while a picker was open, and changed nothing
C15_Witness ==
    /\ ~lastMsg.json /\ lastMsg.type = "-"
    /\ \E s \in Sessions : pc[s] = "picker" /\ isLocked

\* C16: a message of a recognized type (fileInputClick, formSubmit, formError,
\* formSuccess, videoFullscreenChange) that carries no data object is dropped
\* and never partially processed: no picker, no script, no state change, no
\* user-visible alert or notification.
C16_NoDataDropped ==
    [][(Handles /\ lastMsg'.json /\ lastMsg'.type # "other" /\ ~lastMsg'.hasData) =>
           /\ UNCHANGED <<locked, queue, timers, promise, releases>>
           /\ UNCHANGED <<isVideoFullscreen, statusBarHidden, fullscreenTimeoutRef, orientationLock, nativeCalls>>
           /\ UNCHANGED <<picker, reads, lastActiveInputId, scripts, notifications>>
           /\ NoSessionNotice]_vars

\* C20: formSubmit, formError, formSuccess and videoFullscreenChange are not
\* subject to the gate: they are handled also while a picker session holds
\* it, leave the locked flag and the wait queue unchanged and do not disturb
\* the running session.
C20_NonFileEventsBypassGate ==
    [][(Handles /\ lastMsg'.json /\ lastMsg'.hasData /\ lastMsg'.type \notin {"other", "fileInputClick"}) =>
           /\ UNCHANGED <<locked, queue, promise, releases>>
           /\ UNCHANGED <<microtasks, pc, req, picker, reads, assets, log>>
           /\ lastMsg'.type = "videoFullscreenChange" =>
                  /\ isVideoFullscreen' = lastMsg'.flag /\ statusBarHidden' = lastMsg'.flag
                  /\ Len(nativeCalls') = Len(nativeCalls) + 1
           /\ lastMsg'.type = "formSubmit" /\ lastMsg'.flag => Len(scripts') = Len(scripts) + 1
           /\ lastMsg'.type = "formError" /\ lastMsg'.flag => Len(notifications') = Len(notifications) + 1
           /\ lastMsg'.type = "formSuccess" => Len(notifications') = Len(notifications) + 1]_vars

\* a formError message was handled, its alert shown, while a picker was open
C20_Witness ==
    /\ lastMsg.type = "formError" /\ lastMsg.flag
    /\ notifications = <<"errorAlert">>
    /\ \E s \in Sessions : pc[s] = "picker" /\ isLocked

(***************************************************************************)
(* Properties of the fullscreen controller (Spec; C17 under LiveSpec)      *)
(***************************************************************************)
\* the most recent inbound message is a videoFullscreenChange with isFullscreen = flag
LastIsFullscreen(flag) ==
    lastMsg = MsgInfo(TRUE, "videoFullscreenChange", TRUE, flag)

Reverted == orientationLock = "DEFAULT" /\ ~isVideoFullscreen /\ ~statusBarHidden

\* C17: an enter event (isFullscreen true) that is not followed by an exit
\* event leads to the automatic revert of the safety timer: the orientation
\* lock is back to DEFAULT and the fullscreen flag and the status-bar-hidden
\* flag are both false.
C17_SafetyRevert ==
    \A n \in 1..MaxMessages :
        (fsEvents = n /\ LastIsFullscreen(TRUE)) ~> (fsEvents > n \/ Reverted)

\* the step in which the handler of an enter event runs to its end: the
\* lockAsync(LANDSCAPE) it awaits completes or rejects
EnterCompletes ==
    /\ nativeCalls # <<>>
    /\ Head(nativeCalls).cont = "enter"
    /\ nativeCalls' = Tail(nativeCalls)

\* C18: once the handling of an enter event has completed, the status bar is
\* hidden, the orientation lock is LANDSCAPE and a safety timer is armed.
C18_EnterEffects ==
    [][EnterCompletes =>
           /\ statusBarHidden'
           /\ orientationLock' = "LANDSCAPE"
           /\ fullscreenTimeoutRef' # 0
           /\ <<"fs", fullscreenTimeoutRef'>> \in timers']_vars

\* C19: when the last fullscreen event is an exit, then once all handlers have
\* run to completion no safety timer is armed, the orientation lock is
\* DEFAULT and the status bar is visible.
C19_ExitClears ==
    (LastIsFullscreen(FALSE) /\ nativeCalls = <<>>) =>
        /\ \A t \in timers : t[1] # "fs"
        /\ orientationLock = "DEFAULT"
        /\ ~statusBarHidden

(***************************************************************************)
(* Properties of the picker pipeline (Spec)                                *)
(***************************************************************************)
\* the accept hint a is a string that contains word
Contains(a, word) == a.k = "str" /\ word \in {a.toks[i] : i \in 1..Len(a.toks)}

\* C21: a session whose accept hint contains "image" opens the image picker;
\* otherwise, if the hint contains "video", the video picker; otherwise the
\* document picker (a hint with both opens the image picker). The picker gets
\* the multiple flag unchanged, and a session opens one picker only.
C21_PickerByAccept ==
    /\ [][\A s \in Sessions :
              (picker[s] = NoPicker /\ picker'[s] # NoPicker) =>
                  /\ picker'[s].kind = (IF Contains(req[s].accept, "image") THEN "image"
                                        ELSE IF Contains(req[s].accept, "video") THEN "video"
                                        ELSE "document")
                  /\ picker'[s].multiple = req[s].multiple
                  /\ Count(log[s], "picker") = 0]_vars
    /\ [](\A s \in Sessions : Count(log[s], "picker") <= 1)

\* a session whose hint names video and image, with multiple set, is about to
\* open its picker, while an earlier session has had its one picker
C21_Witness ==
    \E s, r \in Sessions :
        /\ Count(log[s], "picker") = 1 /\ pc[s] = "done"
        /\ pc[r] = "awaitAcquire" /\ promise[r] = "true"
        /\ req[r].accept = Str(<<"video", "image">>) /\ req[r].multiple

(***************************************************************************)
(* Properties of the form handlers (Spec)                                  *)
(***************************************************************************)
\* the step handles a message of the given type that carries a data object
HandlesData(type) == Handles /\ lastMsg'.json /\ lastMsg'.type = type /\ lastMsg'.hasData

\* the step changes nothing of the gate, the sessions and the fullscreen state
GateAndFullscreenKept ==
    /\ UNCHANGED <<locked, queue, timers, promise, releases>>
    /\ UNCHANGED <<isVideoFullscreen, statusBarHidden, fullscreenTimeoutRef, orientationLock, nativeCalls>>
    /\ UNCHANGED <<microtasks, pc, req, picker, reads, assets, log, lastActiveInputId>>

\* C26: a formSubmit event injects the signup helper script if and only if
\* its isSignup flag is set; without the flag it injects nothing and has no
\* other effect.
C26_SignupInjection ==
    [][HandlesData("formSubmit") =>
           /\ scripts' = (IF lastMsg'.flag
                          THEN Append(scripts, [kind |-> "signupHelper", target |-> "-"])
                          ELSE scripts)
           /\ notifications' = notifications
           /\ GateAndFullscreenKept]_vars

\* two messages were handled, the last a flagged formSubmit, and one script was injected
C26_Witness ==
    /\ received = 2
    /\ lastMsg = MsgInfo(TRUE, "formSubmit", TRUE, TRUE)
    /\ scripts = <<[kind |-> "signupHelper", target |-> "-"]>>

\* C27: every formError event surfaces its error strings to the user in one
\* notification, and every formSuccess event surfaces its message in one
\* notification; neither changes the gate or the fullscreen state.
C27_FormNotifications ==
    [][(HandlesData("formError") \/ HandlesData("formSuccess")) =>
           /\ Len(notifications') = Len(notifications) + 1
           /\ GateAndFullscreenKept]_vars

\* C27 (amended): a formError event whose errors list is empty shows nothing;
\* one with at least one error string shows one alert, and every formSuccess
\* event shows one notification (a toast on Android, an alert elsewhere).
C27_FormNotificationsNonEmpty ==
    [][/\ HandlesData("formError") =>
              /\ notifications' = (IF lastMsg'.flag
                                   THEN Append(notifications, "errorAlert")
                                   ELSE notifications)
              /\ scripts' = scripts
              /\ GateAndFullscreenKept
       /\ HandlesData("formSuccess") =>
              /\ notifications' = Append(notifications, IF platformOS = "android"
                                                        THEN "successToast"
                                                        ELSE "successAlert")
              /\ scripts' = scripts
              /\ GateAndFullscreenKept]_vars

\* a formError with error strings and then a formSuccess were handled
C27_Witness ==
    /\ lastMsg = MsgInfo(TRUE, "formSuccess", TRUE, FALSE)
    /\ Len(notifications) = 2 /\ notifications[1] = "errorAlert"

\* C28: within a session the picker is invoked only after the session's
\* acquire() resolved true, the reads start only after the picker returned a
\* non-empty selection, and the gate stays locked from the acquisition to the
\* session's release: whenever a picker or a file read is in progress the
\* gate is locked.
C28_PipelineOrder ==
    \A s \in Sessions :
        /\ pc[s] \in {"picker", "reading"} =>
               isLocked /\ promise[s] = "true" /\ releases[s] = 0
        /\ pc[s] = "picker" => log[s] = <<"acquire", "picker">> /\ picker[s] # NoPicker
        /\ pc[s] = "reading" =>
               /\ log[s] = <<"acquire", "picker", "read">>
               /\ Len(reads[s]) >= 1 /\ picker[s] = NoPicker
        /\ picker[s] # NoPicker => pc[s] = "picker"
        /\ reads[s] # <<>> => pc[s] = "reading"
        /\ (promise[s] = "true" /\ releases[s] = 0) => isLocked

\* the reads of a session are in progress, one of them settled
C28_Witness ==
    \E s \in Sessions :
        /\ pc[s] = "reading" /\ isLocked
        /\ reads[s] = <<"file", "pending">>

\* the step in which a safety callback resumes from getOrientationAsync
SafetyResumes ==
    /\ nativeCalls # <<>>
    /\ Head(nativeCalls).cont = "safety"
    /\ nativeCalls' # nativeCalls

\* C30: when the safety timer fires while the device orientation is neither
\* LANDSCAPE_LEFT nor LANDSCAPE_RIGHT, its callback changes nothing: the
\* orientation lock, the fullscreen flag and the status-bar-hidden flag stay
\* as they were, and no revert is started.
C30_SafetyNoopInPortrait ==
    [][(SafetyResumes /\ lastOrientation' = "PORTRAIT_UP") =>
           /\ UNCHANGED <<orientationLock, isVideoFullscreen, statusBarHidden>>
           /\ UNCHANGED <<timers, fullscreenTimeoutRef>>
           /\ nativeCalls' = Tail(nativeCalls)]_vars

\* the safety timer of an enter event that an exit event overtook has fired
\* with the device in portrait, and its callback has ended without a revert
C30_Witness ==
    /\ lastOrientation = "PORTRAIT_UP"
    /\ nativeCalls = <<>> /\ timers = {}
    /\ fullscreenTimeoutRef # 0
    /\ orientationLock = "DEFAULT" /\ ~statusBarHidden

(***************************************************************************)
(* Properties of getMimeType and of the asset normalization (FileSpec)     *)
(***************************************************************************)
\* the text after the last dot of a file name, lower-cased
LastPartLower(filename) ==
    LET parts == filename.toks
        last == IF parts = <<>> THEN "" ELSE parts[Len(parts)]
    IN  IF last = "PDF" THEN "pdf" ELSE IF last = "Mp4" THEN "mp4" ELSE last

\* C22: getMimeType is total: for every file name it returns the table entry
\* of the lower-cased text after the last dot when that text is one of the 19
\* listed extensions (pdf gives application/pdf), and
\* application/octet-stream for every other file name.
C22_MimeTypeTotal ==
    (calc.fn = "getMimeType" /\ calc.done) =>
        LET ext == LastPartLower(calc.asset.fileName)
        IN  /\ ext = "pdf" => calc.type = Str(<<"application/pdf">>)
            /\ ext \in DOMAIN mimeTypes => calc.type = Str(<<mimeTypes[ext]>>)
            /\ ext \notin DOMAIN mimeTypes => calc.type = Str(<<"application/octet-stream">>)

\* C29: the name of an asset's descriptor is the asset's fileName when it has
\* one (a non-empty string), else its name, else a synthetic time-based name;
\* the MIME type is the asset's own mimeType when it has one and otherwise
\* getMimeType of that name; the encoded file carries that name and type.
C29_DescriptorNormalization ==
    (calc.fn = "normalize" /\ calc.done) =>
        LET a == calc.asset
            has(v) == v.k = "str" /\ v.toks # <<>>
        IN  /\ has(a.fileName) => calc.name = a.fileName
            /\ ~has(a.fileName) /\ has(a.name) => calc.name = a.name
            /\ ~has(a.fileName) /\ ~has(a.name) =>
                   calc.name = Str(<<"file_" \o ToString(calc.now)>>)
            /\ has(a.mimeType) => calc.type = a.mimeType
            /\ ~has(a.mimeType) => calc.type = getMimeType(calc.name)

\* an asset with a name but neither fileName nor mimeType was normalized: its
\* type comes from the extension of its name
C29_Witness ==
    /\ calc.fn = "normalize" /\ calc.done
    /\ calc.asset.fileName = Undef /\ calc.asset.mimeType = Undef
    /\ calc.name = Str(<<"report", "PDF">>)
    /\ calc.type = Str(<<"application/pdf">>)

(***************************************************************************)
(* Properties of the scripts in the embedded page (PageSpec)               *)
(***************************************************************************)
\* the clicks made on file-type inputs, oldest first
FileClicks == SelectSeq(web.clicks, LAMBDA i : page[i].tag = "INPUT" /\ page[i].type = "file")

\* C23: every click on a file-type input is intercepted: no native file dialog
\* opens (the default action is prevented during the dispatch of the click),
\* and once the script is at rest exactly one fileInputClick message has been
\* posted per such click, carrying the input's id, accept filter and
\* multiplicity, whatever other clicks preceded it.
C23_ClicksIntercepted ==
    web.script = "observe" =>
        /\ web.dialogs = 0
        /\ ~web.isCalled =>
               /\ Len(web.posted) = Len(FileClicks)
               /\ \A k \in 1..Len(web.posted) :
                      /\ web.posted[k].type = "fileInputClick"
                      /\ web.posted[k].data.id = page[FileClicks[k]].id
                      /\ web.posted[k].data.accept = page[FileClicks[k]].accept
                      /\ web.posted[k].data.multiple = page[FileClicks[k]].multiple

\* the input the script is to act on: the element with the target id, else
\* the last file-type input of the page; 0 when there is neither
Wanted ==
    LET byId == {i \in 1..Len(page) : page[i].id = web.targetId}
        inputs == {i \in 1..Len(page) : page[i].tag = "INPUT" /\ page[i].type = "file"}
    IN  IF byId # {} THEN CHOOSE i \in byId : \A j \in byId : i <= j
        ELSE IF inputs # {} THEN CHOOSE i \in inputs : \A j \in inputs : j <= i
        ELSE 0

\* C24: the reconstruction script locates the input by the target id, else
\* takes the last file-type input of the page; it sets that input's file list
\* to exactly the files it was built for, in order, and dispatches a change
\* event on it; on a page without file input it changes nothing.
C24_FilesAttached ==
    (web.script = "attach" /\ web.ran) =>
        IF Wanted = 0
        THEN web.target = 0 /\ web.files = <<>> /\ web.events = <<>> /\ ~web.marked
        ELSE /\ web.target = Wanted
             /\ web.files = [k \in 1..Len(web.input) |-> web.input[k].name]
             /\ \E k \in 1..Len(web.events) : web.events[k] = "change"

\* the fields of the form of element i a user can edit, the file inputs and
\* the submit controls aside
EditableFields(i) ==
    {j \in 1..Len(page) :
        /\ page[j].form = page[i].form
        /\ \/ page[j].tag \in {"TEXTAREA", "SELECT"}
           \/ page[j].tag = "INPUT" /\ page[j].type \notin {"file", "submit", "hidden"}}

\* C25: the reconstruction script arms the auto-submit, and later clicks the
\* submit control, only for a form without any user-editable field (text
\* input, textarea, select) besides the file input and the submit control.
C25_AutoSubmitUploadOnly ==
    (web.script = "attach" /\ (web.submitTimer \/ web.submits > 0)) =>
        EditableFields(web.target) = {}

(***************************************************************************)
(* Properties of the gate and of the fullscreen state under the dispatcher *)
(***************************************************************************)
\* the safety timers that are armed
SafetyTimers == {t \in timers : t[1] = "fs"}

\* C33: at most one safety timer is armed at any time, and it is the one the
\* timeout reference holds, armed for the most recent enter event; no timer
\* of an earlier enter event stays armed.
C33_OneSafetyTimer ==
    /\ Cardinality(SafetyTimers) <= 1
    /\ \A t \in SafetyTimers : t[2] = fullscreenTimeoutRef

\* C34: under the dispatcher acquire() is never called while the gate is
\* locked: the wait queue is empty in every reachable state, no acquire()
\* waits or times out, and no session returns on the lock-not-acquired path.
C34_NoAcquireWhileLocked ==
    /\ queue = <<>>
    /\ waited = {}
    /\ \A t \in timers : t[1] # "wait"
    /\ \A s \in Sessions :
          /\ promise[s] \in {"none", "true"}
          /\ Count(log[s], "notAcquired") = 0

\* a request arrived while another session was reading its files, and was
\* ignored without calling acquire()
C34_Witness ==
    \E s, r \in Sessions :
        /\ pc[s] = "reading" /\ isLocked
        /\ pc[r] = "done" /\ promise[r] = "none" /\ resolveCalls[r] = 0
        /\ received = 2 /\ lastMsg.type = "fileInputClick" /\ lastMsg.hasData

\* the step in which the error handler of handleFileInputRequest runs: a
\* fileInputClick message without data object is handled while the gate is
\* not reported busy
ErrorHandlerRuns ==
    /\ Handles
    /\ lastMsg'.json /\ lastMsg'.type = "fileInputClick" /\ ~lastMsg'.hasData
    /\ \E s \in Sessions : Count(log'[s], "alert") = Count(log[s], "alert") + 1

\* C35: the fallback release of the error handler of handleFileInputRequest
\* never releases a gate another, still running session holds, and never
\* makes a session release twice: the error handler leaves the gate and the
\* release counts as they are, and no session ever releases more than once.
C35_FallbackRelease ==
    [][/\ ErrorHandlerRuns => UNCHANGED <<locked, queue, promise, releases, microtasks>>
       /\ \A s \in Sessions : releases'[s] <= 1]_vars

\* the error handler ran for the second message, after the session of the
\* first message had released the gate
C35_Witness ==
    /\ received = 2
    /\ lastMsg = MsgInfo(TRUE, "fileInputClick", FALSE, FALSE)
    /\ \E s, r \in Sessions :
          /\ releases[s] = 1 /\ Count(log[s], "release") = 1
          /\ log[r] = <<"alert">> /\ releases[r] = 0
    /\ ~isLocked

\* C36: in every reachable state the status-bar-hidden flag equals the
\* video-fullscreen flag.
C36_StatusBarFollowsFullscreen == statusBarHidden = isVideoFullscreen

\* the safety revert has cleared both flags after an enter event set them
C36_Witness ==
    /\ LastIsFullscreen(TRUE)
    /\ lastOrientation \in {"LANDSCAPE_LEFT", "LANDSCAPE_RIGHT"}
    /\ orientationLock = "DEFAULT"
    /\ ~statusBarHidden /\ ~isVideoFullscreen
    /\ nativeCalls = <<>>

\* C37: whenever the fullscreen flag is true and no videoFullscreenChange
\* handler is suspended on the orientation lock, a safety timer is armed, or
\* its callback is running or has run, also when the lock call failed.
C37_SafetyRevertPending ==
    (isVideoFullscreen /\ \A k \in 1..Len(nativeCalls) : nativeCalls[k].cont \notin {"enter", "exit"}) =>
        \/ SafetyTimers # {}
        \/ \E k \in 1..Len(nativeCalls) : nativeCalls[k].cont \in {"safety", "revert"}
        \/ lastOrientation # "none"

\* C32: after the screen component is unmounted, once the orientation calls
\* in flight have completed, the orientation is unlocked (back to the DEFAULT
\* policy) and no safety timer is armed, also when a videoFullscreenChange
\* handler was suspended on the orientation lock at the moment of unmount.
C32_UnmountCleanup ==
    (~mounted /\ nativeCalls = <<>>) =>
        /\ orientationLock = "DEFAULT"
        /\ SafetyTimers = {}

(***************************************************************************)
(* Properties of the fullscreen detection script (DetectSpec)              *)
(***************************************************************************)
\* C31: the fullscreen detection script posts a videoFullscreenChange message
\* only when the fullscreen state changed: two consecutive messages never
\* carry the same isFullscreen value.
C31_OnlyOnChange ==
    web.script = "fullscreen" =>
        \A k \in 1..(Len(web.posted) - 1) :
            web.posted[k].data.isFullscreen # web.posted[k + 1].data.isFullscreen

(***************************************************************************)
(* The reconstruction script and the text of its inputs (PageSpec)         *)
(***************************************************************************)
\* the page operations a run of the reconstruction script has performed
Operations(w) ==
    [target |-> w.target, count |-> Len(w.files), marked |-> w.marked, events |-> w.events,
     submit |-> w.submitTimer \/ w.submits > 0]

\* the files with every name replaced by a name without quote characters
Renamed(files) == [k \in 1..Len(files) |-> [files[k] EXCEPT !.name = <<"clip.mp4">>]]

\* C38: the values interpolated into the reconstruction script act only as
\* data: a run for files whose names differ only in their characters (quote
\* characters included) performs the same page operations as the run for the
\* same files under plain names, attaching the files to the input.
C38_NamesAreData ==
    (web.script = "attach" /\ web.ran) =>
        Operations(web) =
            Operations(Attach([NoWeb EXCEPT !.script = "attach"], web.targetId, Renamed(web.input)))

====
